---------------------------- MODULE Spec2Model ----------------------------
(***************************************************************************)
(* A model of src/main.py: the beer-selection Telegram bot.                *)
(*                                                                         *)
(* Two specifications share the variables below.                           *)
(*   Spec      the five update handlers (start, help_command,              *)
(*             menu_command, button_callback, handle_message) run by the   *)
(*             polling application, one update at a time.                  *)
(*   SpecProc  the life of the process: the BOT_TOKEN check at import,     *)
(*             main(), the daemon web-server thread and interpreter exit.  *)
(*                                                                         *)
(* TLC strings are ASCII, so the Russian texts of the source are named by  *)
(* ASCII identifiers (the original is in the comment next to each one),    *)
(* and the text of an incoming message is a sequence of Unicode code       *)
(* points, so that str.lower() and the `in` substring test are computed.   *)
(***************************************************************************)
EXTENDS Integers, Sequences, FiniteSets, TLC

(***************************************************************************)
(* Bounds of the model.                                                    *)
(***************************************************************************)
\* an incoming free text is 1..MaxWords words of Vocabulary joined by spaces
MaxWords == 2
\* SpecProc: updates the polling loop takes, GET requests the server answers
MaxUpdates == 3
MaxGets == 4

(***************************************************************************)
(* Program constants.                                                      *)
(***************************************************************************)
\* for _ in range(6)
NumSlots == 6
\* random.random() < 0.3, in hundredths
FeaturedPercent == 30
\* if zhiguli_count >= 3
HappyThreshold == 3
\* self.send_response(200)
HttpOk == 200
\* exit(1)
ExitFailure == 1

\* "Жигули барное"
Featured == "Zhiguli barnoe"
\* beers = ["Крушовица", "Жатецкий гусь", "Хамовники венское",
\*          "Хамовники пильзенское", "Козел"]
beers == << "Krusovice", "Zatecky gus", "Khamovniki venskoe",
            "Khamovniki pilzenskoe", "Kozel" >>

(***************************************************************************)
(* Fixed texts, named.                                                     *)
(***************************************************************************)
\* "Привет, сталкер. Замотался? ..." with the try_luck keyboard
T_WELCOME == "welcome+keyboard[try_luck]"
\* "Произошла ошибка при обработке команды /start. ..."
T_START_ERROR == "start-error-apology"
\* "Вот команды, которые я понимаю: ..."
T_HELP == "help-text"
\* "Выберите тему, которая вас интересует:" with the four topic buttons
T_MENU == "menu+keyboard[history,types,brewing,culture]"
\* "Твой выбор, сталкер ..."
T_LIST_HEAD == "Tvoi vybor, stalker:"
\* "Не дай Зоне себя победить! ..."
T_LIST_TAIL == "Ne dai Zone sebya pobedit!"
\* "Извините, изображение не найдено."
T_IMAGE_NOT_FOUND == "image-not-found-apology"
\* "Произошла ошибка при отправке изображения."
T_IMAGE_ERROR == "image-send-error-apology"
\* "Произошла ошибка при обработке запроса."
T_CALLBACK_ERROR == "callback-error-apology"
\* "Извините, информация по этой теме временно недоступна."
T_UNAVAILABLE == "information-unavailable"
\* the images next to main.py
HAPPY_IMAGE == "zhiguli_happy.png"
SAD_IMAGE == "zhiguli_sad.png"

\* handle_message replies
R_GREETING == "greeting"      \* "Привет! Чем могу помочь?"
R_GRATITUDE == "gratitude"    \* "Всегда рад помочь!"
R_FAREWELL == "farewell"      \* "До новых встреч! ..."
R_IPA == "ipa"
R_LAGER == "lager"
R_ALE == "ale"
R_STOUT == "stout"
R_PORTER == "porter"
R_WHEAT == "wheat"
R_ALCOHOL == "alcohol-content"
R_FOOD == "food-pairing"
R_FALLBACK == "fallback"      \* "Извините, я не совсем понял ваш вопрос. ..."

(***************************************************************************)
(* Keywords of handle_message, as code points.                             *)
(***************************************************************************)
kw_privet == <<1087, 1088, 1080, 1074, 1077, 1090>>  \* "привет"
kw_zdravstvuy == <<1079, 1076, 1088, 1072, 1074, 1089, 1090, 1074, 1091, 1081>>  \* "здравствуй"
kw_spasibo == <<1089, 1087, 1072, 1089, 1080, 1073, 1086>>  \* "спасибо"
kw_blagodar == <<1073, 1083, 1072, 1075, 1086, 1076, 1072, 1088>>  \* "благодар"
kw_poka == <<1087, 1086, 1082, 1072>>  \* "пока"
kw_do_svidaniya == <<1076, 1086, 32, 1089, 1074, 1080, 1076, 1072, 1085, 1080, 1103>>  \* "до свидания"
kw_ipa == <<105, 112, 97>>  \* "ipa"
kw_ipa_cyr == <<1080, 1087, 1072>>  \* "ипа"
kw_lager == <<1083, 1072, 1075, 1077, 1088>>  \* "лагер"
kw_el == <<1101, 1083, 1100>>  \* "эль"
kw_staut == <<1089, 1090, 1072, 1091, 1090>>  \* "стаут"
kw_porter == <<1087, 1086, 1088, 1090, 1077, 1088>>  \* "портер"
kw_pshenichnoe == <<1087, 1096, 1077, 1085, 1080, 1095, 1085, 1086, 1077>>  \* "пшеничное"
kw_alkogol == <<1072, 1083, 1082, 1086, 1075, 1086, 1083, 1100>>  \* "алкоголь"
kw_gradus == <<1075, 1088, 1072, 1076, 1091, 1089>>  \* "градус"
kw_zakuska == <<1079, 1072, 1082, 1091, 1089, 1082, 1072>>  \* "закуска"
kw_zakusyvat == <<1079, 1072, 1082, 1091, 1089, 1099, 1074, 1072, 1090, 1100>>  \* "закусывать"

(***************************************************************************)
(* The incoming texts the model draws from: every keyword as written, some *)
(* in upper or mixed case, some inside a longer word, and words that match *)
(* nothing.                                                                *)
(***************************************************************************)
w_PRIVET == <<1055, 1056, 1048, 1042, 1045, 1058>>  \* "ПРИВЕТ"
w_Spasibo == <<1057, 1087, 1072, 1089, 1080, 1073, 1086>>  \* "Спасибо"
w_IPA == <<73, 80, 65>>  \* "IPA"
w_LAGER == <<1051, 1040, 1043, 1045, 1056>>  \* "ЛАГЕР"
w_tipa == <<1090, 1080, 1087, 1072>>  \* "типа" (holds "ипа")
w_duel == <<1076, 1091, 1101, 1083, 1100>>  \* "дуэль" (holds "эль")
w_pivo == <<1087, 1080, 1074, 1086>>  \* "пиво"
w_Pokazhi == <<1055, 1086, 1082, 1072, 1078, 1080>>  \* "Покажи" (holds "пока" once lowered)
w_STAUT == <<1057, 1090, 1072, 1091, 1090>>  \* "Стаут"
w_zakuski == <<1079, 1072, 1082, 1091, 1089, 1082, 1080>>  \* "закуски" (no keyword)
w_Yozh == <<1025, 1078>>  \* "Ёж"

Keywords ==
    { kw_privet, kw_zdravstvuy, kw_spasibo, kw_blagodar, kw_poka,
      kw_do_svidaniya, kw_ipa, kw_ipa_cyr, kw_lager, kw_el, kw_staut,
      kw_porter, kw_pshenichnoe, kw_alkogol, kw_gradus, kw_zakuska,
      kw_zakusyvat }

Vocabulary ==
    Keywords \cup { w_PRIVET, w_Spasibo, w_IPA, w_LAGER, w_tipa, w_duel,
                    w_pivo, w_Pokazhi, w_STAUT, w_zakuski, w_Yozh }

SPACE == <<32>>

RECURSIVE Join(_)
\* the words of ws joined by single spaces
Join(ws) ==
    IF Len(ws) = 1 THEN ws[1]
    ELSE ws[1] \o SPACE \o Join(Tail(ws))

Texts ==
    { Join(ws) : ws \in UNION { [1..n -> Vocabulary] : n \in 1..MaxWords } }


(***************************************************************************)
(* str.lower() and the substring test `word in text`.                      *)
(***************************************************************************)
\* one character of str.lower(): A-Z, the Cyrillic capitals and the letter Yo
lower_char(c) ==
    IF c >= 65 /\ c <= 90 THEN c + 32
    ELSE IF c >= 1040 /\ c <= 1071 THEN c + 32
    ELSE IF c = 1025 THEN 1105
    ELSE c

lower(text) == [i \in 1..Len(text) |-> lower_char(text[i])]

\* word in text
Contains(text, word) ==
    \E i \in 1..(Len(text) - Len(word) + 1) :
        SubSeq(text, i, i + Len(word) - 1) = word

(***************************************************************************)
(* handle_message: the reply chosen for a text (the if/elif chain).        *)
(***************************************************************************)
\* the beer-related part of the chain, from "ipa" to the fallback
beer_reply(text) ==
    IF Contains(text, kw_ipa) \/ Contains(text, kw_ipa_cyr) THEN R_IPA
    ELSE IF Contains(text, kw_lager) THEN R_LAGER
    ELSE IF Contains(text, kw_el) THEN R_ALE
    ELSE IF Contains(text, kw_staut) THEN R_STOUT
    ELSE IF Contains(text, kw_porter) THEN R_PORTER
    ELSE IF Contains(text, kw_pshenichnoe) THEN R_WHEAT
    ELSE IF Contains(text, kw_alkogol) \/ Contains(text, kw_gradus) THEN R_ALCOHOL
    ELSE IF Contains(text, kw_zakuska) \/ Contains(text, kw_zakusyvat) THEN R_FOOD
    ELSE R_FALLBACK

\* a plausible slip: the gratitude test written above the greeting test
keyword_reply_gratitude_first(text) ==
    IF \E w \in {kw_spasibo, kw_blagodar} : Contains(text, w) THEN R_GRATITUDE
    ELSE IF Contains(text, kw_privet) \/ Contains(text, kw_zdravstvuy) THEN R_GREETING
    ELSE IF \E w \in {kw_poka, kw_do_svidaniya} : Contains(text, w) THEN R_FAREWELL
    ELSE beer_reply(text)

\* the whole chain, on the lower-cased text
keyword_reply(text) ==
    IF Contains(text, kw_privet) \/ Contains(text, kw_zdravstvuy) THEN R_GREETING
    ELSE IF \E w \in {kw_spasibo, kw_blagodar} : Contains(text, w) THEN R_GRATITUDE
    ELSE IF \E w \in {kw_poka, kw_do_svidaniya} : Contains(text, w) THEN R_FAREWELL
    ELSE beer_reply(text)

(***************************************************************************)
(* button_callback: the topic texts, the selection, the list message.      *)
(***************************************************************************)
\* responses = {"history": ..., "types": ..., "brewing": ..., "culture": ...}
responses ==
    [ history |-> "topic-history", types |-> "topic-types",
      brewing |-> "topic-brewing", culture |-> "topic-culture" ]

\* a plausible slip: the featured beer also listed first in beers
draw_slot_featured_listed(r, c) ==
    IF r < FeaturedPercent
    THEN [beer |-> Featured, branch |-> "featured"]
    ELSE [beer |-> (<<Featured>> \o beers)[c], branch |-> "uniform"]

\* one pass of the loop body: r is random.random() in hundredths, c the index
\* random.choice draws
draw_slot(r, c) ==
    IF r < FeaturedPercent
    THEN [beer |-> Featured, branch |-> "featured"]
    ELSE [beer |-> beers[c], branch |-> "uniform"]

\* selected_beers.count("Жигули барное")
zhiguli_count(sel) == Cardinality({i \in 1..Len(sel) : sel[i] = Featured})

\* enumerate(selected_beers, 1)
enumerate_start == 1

\* a plausible slip: enumerate(selected_beers) without the start of 1
beer_message_from_zero(sel) ==
    [ head  |-> T_LIST_HEAD,
      items |-> [i \in 1..Len(sel) |-> [n |-> i - 1, beer |-> sel[i]]],
      tail  |-> T_LIST_TAIL ]

\* beer_message: the head line, "i. beer" per slot, the closing line
beer_message(sel) ==
    [ head  |-> T_LIST_HEAD,
      items |-> [i \in 1..Len(sel) |->
                    [n |-> i - 1 + enumerate_start, beer |-> sel[i]]],
      tail  |-> T_LIST_TAIL ]

\* a fixed text, in the shape of a message body
plain(t) == [head |-> t, items |-> <<>>, tail |-> ""]

\* a plausible slip: > where the source has >=
image_for_strict(count) == IF count > HappyThreshold THEN HAPPY_IMAGE ELSE SAD_IMAGE

\* if zhiguli_count >= 3: happy image, else: sad image
image_for(count) == IF count >= HappyThreshold THEN HAPPY_IMAGE ELSE SAD_IMAGE

(***************************************************************************)
(* State.                                                                  *)
(***************************************************************************)
VARIABLES
    pc,              \* where the application is in handling the current update
    upd,             \* the update being handled
    out,             \* the Bot API calls made for it, in order, with outcome
    logs,            \* the error and warning lines logged for it, in order
    selected_beers,  \* button_callback's selected_beers
    branches,        \* per slot, the branch of the loop body that filled it
    image_path,      \* the image button_callback chose to send, "" before that
    token,           \* the BOT_TOKEN environment variable ("" when empty)
    mainPc,          \* where the main thread is
    web,             \* the web-server thread
    exitCode,        \* the exit status of the process, -1 while it runs
    handled,         \* SpecProc: updates taken by run_polling so far
    served           \* SpecProc: the statuses of the GET requests answered

hvars == <<pc, upd, out, logs, selected_beers, branches, image_path>>
pvars == <<token, mainPc, web, exitCode, handled, served>>
vars == <<pc, upd, out, logs, selected_beers, branches, image_path,
          token, mainPc, web, exitCode, handled, served>>

\* the chats updates come from
Chats == {"chatA", "chatB"}

\* callback data: the five known values, and strings that are none of them
CallbackData ==
    {"try_luck", "history", "types", "brewing", "culture", "unknown", "TRY_LUCK"}

NoUpdate == [kind |-> "none", chat |-> "", data |-> "", text |-> <<>>]

Updates ==
    [kind : {"start", "help", "menu"}, chat : Chats, data : {""}, text : {<<>>}]
    \cup [kind : {"callback"}, chat : Chats, data : CallbackData, text : {<<>>}]
    \cup [kind : {"text"}, chat : Chats, data : {""}, text : Texts]

\* one Bot API call: what was called, to which chat, with what, and whether
\* it returned (ok) or raised
Call(c, chat, body, ok) == [call |-> c, chat |-> chat, body |-> body, ok |-> ok]

\* the values random.random() takes in the model, in hundredths: both sides
\* of the 0.3 threshold and the threshold itself
RVals == {0, 29, 30, 99}

\* random.choice(beers) draws one of the first MaxChoice beers in the model
MaxChoice == 3
Choices == 1..(IF MaxChoice < Len(beers) THEN MaxChoice ELSE Len(beers))

\* the image file at send time
FileStates == {"present", "missing", "unreadable"}

(***************************************************************************)
(* The application: handlers registered in main(), one update at a time.   *)
(***************************************************************************)
\* application.add_handler(...): the handler an update goes to
handler_for(u) ==
    CASE u.kind = "start" -> "start"
      [] u.kind = "help" -> "help_command"
      [] u.kind = "menu" -> "menu_command"
      [] u.kind = "callback" -> "button_callback"
      [] u.kind = "text" -> "handle_message"

Polling == mainPc = "polling" /\ exitCode = -1

\* run_polling takes the next update and calls its handler
Dispatch ==
    /\ Polling
    /\ pc = "idle"
    /\ \E u \in Updates :
        /\ upd' = u
        /\ pc' = handler_for(u)
    /\ UNCHANGED <<out, logs, selected_beers, branches, image_path, pvars>>

\* the handler has returned (or its exception has reached the application's
\* error_handler, which logs it): the application goes on to the next update
Return ==
    /\ pc \in {"done", "escaped"}
    /\ pc' = "idle"
    /\ upd' = NoUpdate
    /\ out' = <<>>
    /\ logs' = <<>>
    /\ selected_beers' = <<>>
    /\ branches' = <<>>
    /\ image_path' = ""
    /\ UNCHANGED pvars

(***************************************************************************)
(* start, help_command, menu_command, handle_message.                      *)
(***************************************************************************)
start ==
    /\ pc = "start"
    /\ \E ok1, ok2 \in BOOLEAN :
        /\ out' = out
              \o <<Call("reply_text", upd.chat, plain(T_WELCOME), ok1)>>
              \o (IF ok1 THEN <<>>
                  ELSE <<Call("reply_text", upd.chat, plain(T_START_ERROR), ok2)>>)
        /\ logs' = logs
              \o (IF ok1 THEN <<>> ELSE <<"Error in start command">>)
              \o (IF ok1 \/ ok2 THEN <<>>
                  ELSE <<"Could not send error message to user">>)
    /\ pc' = "done"
    /\ UNCHANGED <<upd, selected_beers, branches, image_path, pvars>>

help_command ==
    /\ pc = "help_command"
    /\ \E ok \in BOOLEAN :
        /\ out' = Append(out, Call("reply_text", upd.chat, plain(T_HELP), ok))
        /\ logs' = IF ok THEN logs ELSE Append(logs, "Error in help command")
    /\ pc' = "done"
    /\ UNCHANGED <<upd, selected_beers, branches, image_path, pvars>>

menu_command ==
    /\ pc = "menu_command"
    /\ \E ok \in BOOLEAN :
        /\ out' = Append(out, Call("reply_text", upd.chat, plain(T_MENU), ok))
        /\ logs' = IF ok THEN logs ELSE Append(logs, "Error in menu command")
    /\ pc' = "done"
    /\ UNCHANGED <<upd, selected_beers, branches, image_path, pvars>>

handle_message ==
    /\ pc = "handle_message"
    /\ \E ok \in BOOLEAN :
        /\ out' = Append(out, Call("reply_text", upd.chat,
                                   plain(keyword_reply(lower(upd.text))), ok))
        /\ logs' = IF ok THEN logs ELSE Append(logs, "Error in handle_message")
    /\ pc' = "done"
    /\ UNCHANGED <<upd, selected_beers, branches, image_path, pvars>>

(***************************************************************************)
(* button_callback, one step per await (and one per pass of the draw       *)
(* loop).                                                                  *)
(***************************************************************************)
\* a plausible slip: no inner try around the image step and the step outside
\* the outer one
except_target_no_inner_try(where) ==
    IF where = "image" THEN "escaped" ELSE "cb_except"

\* where an exception raised at `where` is caught: the image step is inside
\* the inner try (except Exception as img_err), everything else, the inner
\* except clause included, inside the outer try (except Exception as e)
except_target(where) ==
    IF where = "image" THEN "cb_img_except" ELSE "cb_except"

\* a plausible slip: the data compared after lower-casing
callback_route_any_case(data) ==
    IF data \in {"try_luck", "TRY_LUCK"} THEN "selection"
    ELSE IF data \in DOMAIN responses THEN "topic"
    ELSE "unavailable"

\* if query.data == "try_luck": ... return / if query.data in responses / else
callback_route(data) ==
    IF data = "try_luck" THEN "selection"
    ELSE IF data \in DOMAIN responses THEN "topic"
    ELSE "unavailable"

\* a plausible slip: the not-found branch raising after its apology is sent
after_not_found_raises(ok) == except_target("image")

\* the not-found branch ends the handler once its apology is sent
after_not_found(ok) == IF ok THEN "done" ELSE except_target("image")

\* logger.error(f"Happy image file not found ...") / "Sad image file ..."
not_found_log(img) ==
    IF img = HAPPY_IMAGE THEN "Happy image file not found"
    ELSE "Sad image file not found"

\* await query.answer()
button_callback_answer ==
    /\ pc = "button_callback"
    /\ \E ok \in BOOLEAN :
        /\ out' = Append(out, Call("answer", upd.chat, plain(""), ok))
        /\ pc' = IF ~ok THEN except_target("answer")
                 ELSE IF callback_route(upd.data) = "selection" THEN "cb_draw"
                 ELSE "cb_topic"
    /\ UNCHANGED <<upd, logs, selected_beers, branches, image_path, pvars>>

\* one pass of: for _ in range(6)
button_callback_draw ==
    /\ pc = "cb_draw"
    /\ Len(selected_beers) < NumSlots
    /\ \E r \in RVals, c \in Choices :
        /\ selected_beers' = Append(selected_beers, draw_slot(r, c).beer)
        /\ branches' = Append(branches, draw_slot(r, c).branch)
    /\ UNCHANGED <<pc, upd, out, logs, image_path, pvars>>

\* await query.edit_message_text(text=beer_message)
button_callback_edit_list ==
    /\ pc = "cb_draw"
    /\ Len(selected_beers) = NumSlots
    /\ \E ok \in BOOLEAN :
        /\ out' = Append(out, Call("edit_message_text", upd.chat,
                                   beer_message(selected_beers), ok))
        /\ pc' = IF ok THEN "cb_image" ELSE except_target("edit")
    /\ UNCHANGED <<upd, logs, selected_beers, branches, image_path, pvars>>

\* the inner try: choose the image, check that it exists, open it, send it
button_callback_image ==
    /\ pc = "cb_image"
    /\ image_path' = image_for(zhiguli_count(selected_beers))
    /\ \E fs \in FileStates, ok \in BOOLEAN :
        \/ /\ fs = "present"
           /\ out' = Append(out, Call("send_photo", upd.chat,
                                      plain(image_path'), ok))
           /\ logs' = logs
           /\ pc' = IF ok THEN "done" ELSE except_target("image")
        \/ /\ fs = "unreadable"
           /\ out' = out
           /\ logs' = logs
           /\ pc' = except_target("image")
        \/ /\ fs = "missing"
           /\ out' = Append(out, Call("send_message", upd.chat,
                                      plain(T_IMAGE_NOT_FOUND), ok))
           /\ logs' = Append(logs, not_found_log(image_path'))
           /\ pc' = after_not_found(ok)
    /\ UNCHANGED <<upd, selected_beers, branches, pvars>>

\* except Exception as img_err
button_callback_img_except ==
    /\ pc = "cb_img_except"
    /\ logs' = Append(logs, "Error sending image")
    /\ \E ok \in BOOLEAN :
        /\ out' = Append(out, Call("send_message", upd.chat,
                                   plain(T_IMAGE_ERROR), ok))
        /\ pc' = IF ok THEN "done" ELSE except_target("img_except")
    /\ UNCHANGED <<upd, selected_beers, branches, image_path, pvars>>

\* the other buttons: the topic's text, or the "unavailable" text
button_callback_topic ==
    /\ pc = "cb_topic"
    /\ \E ok \in BOOLEAN :
        /\ out' = Append(out, Call("edit_message_text", upd.chat,
                     plain(IF callback_route(upd.data) = "topic"
                           THEN responses[upd.data] ELSE T_UNAVAILABLE), ok))
        /\ logs' = IF ok /\ callback_route(upd.data) = "unavailable"
                   THEN Append(logs, "No response found for callback data")
                   ELSE logs
        /\ pc' = IF ok THEN "done" ELSE except_target("topic")
    /\ UNCHANGED <<upd, selected_beers, branches, image_path, pvars>>

\* except Exception as e, with its own try / bare except around the apology
button_callback_except ==
    /\ pc = "cb_except"
    /\ \E ok \in BOOLEAN :
        /\ out' = Append(out, Call("send_message", upd.chat,
                                   plain(T_CALLBACK_ERROR), ok))
        /\ logs' = logs \o <<"Error in button_callback">>
                        \o (IF ok THEN <<>>
                            ELSE <<"Could not send error message to user">>)
    /\ pc' = "done"
    /\ UNCHANGED <<upd, selected_beers, branches, image_path, pvars>>

button_callback ==
    \/ button_callback_answer
    \/ button_callback_draw
    \/ button_callback_edit_list
    \/ button_callback_image
    \/ button_callback_img_except
    \/ button_callback_topic
    \/ button_callback_except

(***************************************************************************)
(* Spec: the handlers, with the process up and polling.                    *)
(***************************************************************************)
HandlersIdle ==
    /\ pc = "idle"
    /\ upd = NoUpdate
    /\ out = <<>>
    /\ logs = <<>>
    /\ selected_beers = <<>>
    /\ branches = <<>>
    /\ image_path = ""

Init ==
    /\ HandlersIdle
    /\ token = "123:abc"
    /\ mainPc = "polling"
    /\ web = "serving"
    /\ exitCode = -1
    /\ handled = 0
    /\ served = <<>>

Next ==
    \/ Dispatch
    \/ start
    \/ help_command
    \/ menu_command
    \/ button_callback
    \/ handle_message
    \/ Return

Spec == Init /\ [][Next]_vars

(***************************************************************************)
(* SpecProc: the process.  The module body reads BOT_TOKEN and exits when  *)
(* it is empty; main() starts the daemon web-server thread, builds the     *)
(* application and polls; when main() returns the interpreter exits and    *)
(* takes the daemon thread with it.                                        *)
(***************************************************************************)
\* the environment at startup: BOT_TOKEN unset, set to "", or set
TokenEnv == {"<unset>", "", "123:abc"}

\* os.getenv("BOT_TOKEN", "")
BOT_TOKEN == IF token = "<unset>" THEN "" ELSE token

\* a plausible slip: only an unset variable checked
token_missing_only_unset(t) == token = "<unset>"

\* if not BOT_TOKEN
token_missing(t) == t = ""

\* module level: if not BOT_TOKEN: logger.error(...); exit(1)
check_token ==
    /\ mainPc = "import"
    /\ IF token_missing(BOT_TOKEN)
       THEN /\ mainPc' = "exited"
            /\ exitCode' = ExitFailure
       ELSE /\ mainPc' = "main"
            /\ exitCode' = exitCode
    /\ UNCHANGED <<hvars, token, web, handled, served>>

\* main(): web_thread = threading.Thread(..., daemon=True); web_thread.start()
main_start_web_thread ==
    /\ mainPc = "main"
    /\ web' = "starting"
    /\ mainPc' = "build"
    /\ UNCHANGED <<hvars, token, exitCode, handled, served>>

\* main(): Application.builder().token(BOT_TOKEN).build(), add_handler(...)
main_build_application ==
    /\ mainPc = "build"
    /\ \E ok \in BOOLEAN :
        mainPc' = IF ok THEN "polling" ELSE "main_except"
    /\ UNCHANGED <<hvars, token, web, exitCode, handled, served>>

\* application.run_polling(...) takes an update and handles it
poll_update ==
    /\ Polling
    /\ handled < MaxUpdates
    /\ handled' = handled + 1
    /\ UNCHANGED <<hvars, token, mainPc, web, exitCode, served>>

\* application.run_polling(...) raises (network, conflict, invalid token)
poll_raises ==
    /\ Polling
    /\ mainPc' = "main_except"
    /\ UNCHANGED <<hvars, token, web, exitCode, handled, served>>

\* application.run_polling(...) returns on a stop signal
poll_stopped ==
    /\ Polling
    /\ mainPc' = "main_returned"
    /\ UNCHANGED <<hvars, token, web, exitCode, handled, served>>

\* main(): except Exception as e: logger.error(...)
main_except ==
    /\ mainPc = "main_except"
    /\ mainPc' = "main_returned"
    /\ UNCHANGED <<hvars, token, web, exitCode, handled, served>>

\* what interpreter exit does to the web thread: it is a daemon thread
web_at_exit(w) == IF w \in {"starting", "serving"} THEN "killed" ELSE w

\* main() has returned: the interpreter exits with status 0
process_exit ==
    /\ mainPc = "main_returned"
    /\ mainPc' = "exited"
    /\ exitCode' = 0
    /\ web' = web_at_exit(web)
    /\ UNCHANGED <<hvars, token, handled, served>>

\* run_web_server(): HTTPServer(('0.0.0.0', port), Handler) binds, or raises
\* and ends the thread
run_web_server ==
    /\ web = "starting"
    /\ exitCode = -1
    /\ \E ok \in BOOLEAN :
        web' = IF ok THEN "serving" ELSE "crashed"
    /\ UNCHANGED <<hvars, token, mainPc, exitCode, handled, served>>

\* Handler.do_GET: self.send_response(200), for any path
do_GET ==
    /\ web = "serving"
    /\ exitCode = -1
    /\ Len(served) < MaxGets
    /\ served' = Append(served, HttpOk)
    /\ UNCHANGED <<hvars, token, mainPc, web, exitCode, handled>>

InitProc ==
    /\ HandlersIdle
    /\ token \in TokenEnv
    /\ mainPc = "import"
    /\ web = "none"
    /\ exitCode = -1
    /\ handled = 0
    /\ served = <<>>

main ==
    \/ main_start_web_thread
    \/ main_build_application
    \/ poll_update
    \/ poll_raises
    \/ poll_stopped
    \/ main_except

NextProc ==
    \/ check_token
    \/ main
    \/ process_exit
    \/ run_web_server
    \/ do_GET

SpecProc == InitProc /\ [][NextProc]_vars

(***************************************************************************)
(* What the claims speak of.                                               *)
(***************************************************************************)
Range(f) == {f[i] : i \in DOMAIN f}

\* the calls of one kind made so far for the current update
CallsOf(c) == {i \in 1..Len(out) : out[i].call = c}

\* the apology texts of the handlers
Apologies ==
    {T_START_ERROR, T_IMAGE_NOT_FOUND, T_IMAGE_ERROR, T_CALLBACK_ERROR}

\* the apology messages tried so far, and those that were delivered
ApologyCalls == {i \in 1..Len(out) : out[i].body.head \in Apologies}
ApologiesDelivered == {i \in ApologyCalls : out[i].ok}

\* the list message has been edited in, and the call returned
ListEdited ==
    \E i \in CallsOf("edit_message_text") :
        out[i].ok /\ out[i].body.head = T_LIST_HEAD

\* the image step of button_callback has run
ImageStepRan == image_path # ""

\* a photo went out
PhotoSent == \E i \in CallsOf("send_photo") : out[i].ok

\* the keyword groups in the order the specification gives them
GroupOrder ==
    << [keys |-> {kw_privet, kw_zdravstvuy}, reply |-> R_GREETING],
       [keys |-> {kw_spasibo, kw_blagodar}, reply |-> R_GRATITUDE],
       [keys |-> {kw_poka, kw_do_svidaniya}, reply |-> R_FAREWELL],
       [keys |-> {kw_ipa, kw_ipa_cyr}, reply |-> R_IPA],
       [keys |-> {kw_lager}, reply |-> R_LAGER],
       [keys |-> {kw_el}, reply |-> R_ALE],
       [keys |-> {kw_staut}, reply |-> R_STOUT],
       [keys |-> {kw_porter}, reply |-> R_PORTER],
       [keys |-> {kw_pshenichnoe}, reply |-> R_WHEAT],
       [keys |-> {kw_alkogol, kw_gradus}, reply |-> R_ALCOHOL],
       [keys |-> {kw_zakuska, kw_zakusyvat}, reply |-> R_FOOD] >>

\* the groups with a keyword inside the lower-cased text
MatchingGroups(text) ==
    LET low == lower(text)
    IN  {g \in 1..Len(GroupOrder) :
            \E w \in GroupOrder[g].keys : Contains(low, w)}

\* the least of a non-empty set of numbers
Least(S) == CHOOSE g \in S : \A h \in S : g <= h

(***************************************************************************)
(* C1.  For every free text, handle_message makes exactly one reply call,  *)
(* and the reply is that of the first keyword group, in the order greeting,*)
(* gratitude, farewell, IPA, lager, ale, stout, porter, wheat, alcohol     *)
(* content, food pairing, with a keyword inside the lower-cased text; the  *)
(* fallback is the reply iff no group matches; a text holding "привет" or  *)
(* "здравствуй" in any case gets the greeting whatever else it holds.      *)
(***************************************************************************)
C1_FirstGroupWins ==
    (upd.kind = "text" /\ pc = "done") =>
        LET M == MatchingGroups(upd.text)
            expected == IF M = {} THEN R_FALLBACK ELSE GroupOrder[Least(M)].reply
        IN  /\ Len(out) = 1
            /\ out[1].call = "reply_text"
            /\ out[1].chat = upd.chat
            /\ out[1].body = plain(expected)
            /\ (out[1].body = plain(R_FALLBACK)) <=> (M = {})
            /\ (1 \in M) => out[1].body = plain(R_GREETING)

\* "Спасибо ПРИВЕТ": gratitude comes first in the text, in mixed case, and
\* the greeting is the reply
C1_Witness ==
    /\ pc = "done"
    /\ upd.kind = "text"
    /\ upd.text = w_Spasibo \o SPACE \o w_PRIVET
    /\ out = <<Call("reply_text", upd.chat, plain(R_GREETING), TRUE)>>

(***************************************************************************)
(* C2, as stated.  For every 6-slot selection drawn on try_luck, the happy *)
(* image is the one chosen iff the featured beer occurs at least 3 times   *)
(* in it, and the sad image is chosen otherwise.                           *)
(***************************************************************************)
C2_PathForEverySelection ==
    (upd.kind = "callback" /\ pc = "done"
        /\ Len(selected_beers) = NumSlots) =>
        /\ (image_path = HAPPY_IMAGE) <=> (zhiguli_count(selected_beers) >= 3)
        /\ (image_path = SAD_IMAGE) <=> (zhiguli_count(selected_beers) < 3)

(***************************************************************************)
(* C2, amended.  For every 6-slot selection whose list message was edited  *)
(* in without an exception, the image step chooses the happy image iff the *)
(* featured beer occurs at least 3 times, and the sad image otherwise;     *)
(* when the edit of the list raises, no image is chosen at all.            *)
(***************************************************************************)
C2_PathWhenListEdited ==
    /\ (ListEdited /\ pc # "cb_image") =>
        /\ Len(selected_beers) = NumSlots
        /\ (image_path = HAPPY_IMAGE) <=> (zhiguli_count(selected_beers) >= 3)
        /\ (image_path = SAD_IMAGE) <=> (zhiguli_count(selected_beers) < 3)
    /\ (~ListEdited \/ pc = "cb_image") => image_path = ""
    /\ \A i \in CallsOf("send_photo") : out[i].body = plain(image_path)

\* exactly 3 featured beers, and the happy image went out
C2_Witness ==
    /\ pc = "done"
    /\ zhiguli_count(selected_beers) = 3
    /\ image_path = HAPPY_IMAGE
    /\ PhotoSent

\* exactly 2 featured beers, and the sad image went out
C2_WitnessSad ==
    /\ pc = "done"
    /\ zhiguli_count(selected_beers) = 2
    /\ image_path = SAD_IMAGE
    /\ PhotoSent

(***************************************************************************)
(* C3.  On try_luck, when no call fails and the image file is there, the   *)
(* calls made are exactly: the acknowledgement, one edit whose text lists  *)
(* the 6 selected beers numbered 1..6 in draw order between the head and   *)
(* the closing line, one photo; and in no run is a photo sent before the   *)
(* list text.                                                              *)
(***************************************************************************)
C3_AnswerListPhoto ==
    /\ (upd.kind = "callback" /\ upd.data = "try_luck" /\ pc = "done"
          /\ (\A i \in 1..Len(out) : out[i].ok) /\ logs = <<>>) =>
        /\ Len(out) = 3
        /\ out[1].call = "answer"
        /\ out[2].call = "edit_message_text"
        /\ out[2].body.head = T_LIST_HEAD
        /\ out[2].body.tail = T_LIST_TAIL
        /\ Len(out[2].body.items) = 6
        /\ \A k \in 1..6 :
              out[2].body.items[k] = [n |-> k, beer |-> selected_beers[k]]
        /\ out[3].call = "send_photo"
        /\ out[3].chat = upd.chat
    /\ \A i \in CallsOf("send_photo") :
          \E j \in 1..(i - 1) :
              /\ out[j].call = "edit_message_text"
              /\ out[j].ok
              /\ out[j].body.head = T_LIST_HEAD

\* a run with no failure, over a selection that mixes both branches
C3_Witness ==
    /\ pc = "done"
    /\ upd.data = "try_luck"
    /\ Len(out) = 3
    /\ \A i \in 1..Len(out) : out[i].ok
    /\ out[3].call = "send_photo"
    /\ selected_beers[1] = Featured
    /\ selected_beers[2] = beers[2]

(***************************************************************************)
(* C4.  In the image step of try_luck, for the happy and for the sad       *)
(* image alike, when the file is missing or cannot be sent the exception   *)
(* does not leave the handler: the failure is logged and a plain-text      *)
(* apology is tried, to the chat of the callback, in place of the photo.   *)
(***************************************************************************)
C4_ImageFailureDegrades ==
    /\ pc # "escaped"
    /\ (ImageStepRan /\ pc = "done" /\ ~PhotoSent) =>
        /\ logs # <<>>
        /\ \E i \in ApologyCalls :
              /\ out[i].call = "send_message"
              /\ out[i].chat = upd.chat
              /\ \A j \in CallsOf("send_photo") : j < i
    /\ \A i \in ApologyCalls : out[i].chat = upd.chat

\* the happy image is missing: the not-found apology is delivered instead
C4_Witness ==
    /\ pc = "done"
    /\ image_path = HAPPY_IMAGE
    /\ logs = <<"Happy image file not found">>
    /\ out[Len(out)] =
          Call("send_message", upd.chat, plain(T_IMAGE_NOT_FOUND), TRUE)

\* the sad image is there and its transmission raises: the image-error
\* apology is delivered instead
C4_WitnessSad ==
    /\ pc = "done"
    /\ image_path = SAD_IMAGE
    /\ Len(out) = 4
    /\ out[3] = Call("send_photo", upd.chat, plain(SAD_IMAGE), FALSE)
    /\ out[4] = Call("send_message", upd.chat, plain(T_IMAGE_ERROR), TRUE)

(***************************************************************************)
(* C5, as stated.  In each of the five handlers an exception raised while  *)
(* handling an update is caught in the handler and logged, never reaches   *)
(* the application, and the user is answered with an apology: once a call  *)
(* has raised, the handler ends with the error logged and an apology       *)
(* message tried.                                                          *)
(***************************************************************************)
C5_CaughtLoggedApologised ==
    /\ pc # "escaped"
    /\ (pc = "done" /\ \E i \in 1..Len(out) : ~out[i].ok) =>
        /\ logs # <<>>
        /\ ApologyCalls # {}

\* what does hold of all five: caught and logged
C5_CaughtAndLogged ==
    /\ pc # "escaped"
    /\ (pc = "done" /\ \E i \in 1..Len(out) : ~out[i].ok) => logs # <<>>

(***************************************************************************)
(* C6, as stated (SpecProc).  The web server and the bot do not depend on  *)
(* each other: the web-server thread failing never keeps the bot from      *)
(* polling, and the bot path failing or ending never takes a serving       *)
(* endpoint down: one that has answered a GET goes on serving.             *)
(***************************************************************************)
C6_Independent ==
    /\ (web = "crashed" /\ mainPc = "polling" /\ handled < MaxUpdates) =>
          ENABLED poll_update
    /\ served # <<>> => web = "serving"

\* the direction that holds: a web thread that cannot bind leaves the bot
\* polling
C6_BotSurvivesBindFailure ==
    /\ web = "crashed"
    /\ mainPc = "polling"
    /\ handled = MaxUpdates

(***************************************************************************)
(* C7 (SpecProc).  With BOT_TOKEN unset or empty the process exits with a  *)
(* non-zero status before the web-server thread is started and before the  *)
(* application is built or polls: neither the web thread nor the bot ever  *)
(* runs without a token.                                                   *)
(***************************************************************************)
C7_NoTokenNoStart ==
    /\ token \in {"<unset>", ""} =>
        /\ web = "none"
        /\ mainPc \in {"import", "exited"}
        /\ mainPc = "exited" => (exitCode # 0 /\ exitCode # -1)
        /\ handled = 0
        /\ served = <<>>
    /\ (web # "none" \/ mainPc \in {"main", "build", "polling"}) =>
          token \notin {"<unset>", ""}

\* BOT_TOKEN set to the empty string: exited with status 1, nothing started
C7_Witness ==
    /\ token = ""
    /\ mainPc = "exited"
    /\ exitCode = 1
    /\ web = "none"

(***************************************************************************)
(* C8.  A selection drawn on try_luck has exactly 6 entries once the loop  *)
(* is over, each entry is the featured beer or one of the 5 beers of the   *)
(* list, whatever the 6 draws give, and the featured beer comes from the   *)
(* 0.3 branch only, never from random.choice.                              *)
(***************************************************************************)
C8_SelectionShape ==
    /\ Len(selected_beers) <= 6
    /\ Len(branches) = Len(selected_beers)
    /\ Cardinality(Range(beers)) = 5
    /\ \A i \in 1..Len(selected_beers) :
          /\ selected_beers[i] \in {Featured} \cup Range(beers)
          /\ (selected_beers[i] = Featured) <=> (branches[i] = "featured")
          /\ (selected_beers[i] \in Range(beers)) <=> (branches[i] = "uniform")
    /\ pc \in {"cb_image", "cb_img_except"} => Len(selected_beers) = 6
    /\ \A i \in CallsOf("edit_message_text") :
          out[i].body.head = T_LIST_HEAD =>
              /\ Len(selected_beers) = 6
              /\ Len(out[i].body.items) = 6

\* a full selection with entries from both branches
C8_Witness ==
    /\ pc = "cb_image"
    /\ Len(selected_beers) = 6
    /\ branches[1] = "featured"
    /\ branches[6] = "uniform"
    /\ selected_beers[6] = beers[3]

(***************************************************************************)
(* What a callback did, for C9.                                            *)
(***************************************************************************)
SelectionRan == selected_beers # <<>> \/ ListEdited
TopicEdits ==
    {i \in CallsOf("edit_message_text") : out[i].body.head \in Range(responses)}
UnavailableEdits ==
    {i \in CallsOf("edit_message_text") : out[i].body.head = T_UNAVAILABLE}

\* the outcome the data asks for, and no other
RoutedByData ==
    /\ upd.data = "try_luck" =>
          /\ Len(selected_beers) = NumSlots
          /\ TopicEdits = {} /\ UnavailableEdits = {}
    /\ upd.data \in {"history", "types", "brewing", "culture"} =>
          /\ Cardinality(TopicEdits) = 1
          /\ \A i \in TopicEdits : out[i].body = plain(responses[upd.data])
          /\ ~SelectionRan /\ UnavailableEdits = {}
    /\ upd.data \notin {"try_luck", "history", "types", "brewing", "culture"} =>
          /\ Cardinality(UnavailableEdits) = 1
          /\ ~SelectionRan /\ TopicEdits = {}

\* never, for data other than try_luck: a selection, an image
NoSelectionUnlessTryLuck ==
    (upd.kind = "callback" /\ upd.data # "try_luck") =>
        /\ selected_beers = <<>>
        /\ image_path = ""
        /\ CallsOf("send_photo") = {}

(***************************************************************************)
(* C9, as stated.  For every callback data: try_luck runs the selection,   *)
(* each of history, types, brewing, culture edits the message to its own   *)
(* text, any other string edits it to the "unavailable" text; exactly one  *)
(* of the three happens per callback, and a callback other than try_luck   *)
(* never draws a selection or sends an image.                              *)
(***************************************************************************)
C9_OneOutcomePerCallback ==
    /\ (upd.kind = "callback" /\ pc = "done") => RoutedByData
    /\ NoSelectionUnlessTryLuck

(***************************************************************************)
(* C9, amended.  The same, for every callback whose acknowledgement        *)
(* (query.answer()) returns; when the acknowledgement raises, none of the  *)
(* three happens and the only call after it is the apology message.        *)
(***************************************************************************)
C9_OneOutcomeOnceAnswered ==
    /\ (upd.kind = "callback" /\ pc = "done" /\ out[1].ok) => RoutedByData
    /\ (upd.kind = "callback" /\ pc = "done" /\ ~out[1].ok) =>
          /\ ~SelectionRan /\ TopicEdits = {} /\ UnavailableEdits = {}
          /\ Len(out) = 2
          /\ out[2].body = plain(T_CALLBACK_ERROR)
    /\ upd.kind = "callback" /\ pc = "done" => out[1].call = "answer"
    /\ NoSelectionUnlessTryLuck

\* data that differs from try_luck by case only gets the "unavailable" text
C9_Witness ==
    /\ pc = "done"
    /\ upd.data = "TRY_LUCK"
    /\ Len(out) = 2
    /\ out[2] = Call("edit_message_text", upd.chat, plain(T_UNAVAILABLE), TRUE)

(***************************************************************************)
(* C10.  For one try_luck callback, whatever calls succeed or raise: at    *)
(* most one apology message is delivered, no call is made once a photo     *)
(* has been sent, and no photo is sent when the edit of the list raised.   *)
(***************************************************************************)
C10_AtMostOneApology ==
    upd.kind = "callback" =>
        /\ Cardinality(ApologiesDelivered) <= 1
        /\ \A i \in CallsOf("send_photo") : out[i].ok => i = Len(out)
        /\ PhotoSent => pc = "done"
        /\ ~ListEdited => CallsOf("send_photo") = {}
        /\ \A i \in ApologiesDelivered : i = Len(out) /\ pc = "done"

\* the photo raises, the image-error apology raises, the last apology is
\* delivered: three tries, one delivery
C10_Witness ==
    /\ pc = "done"
    /\ upd.data = "try_luck"
    /\ Len(out) = 5
    /\ out[3].call = "send_photo" /\ ~out[3].ok
    /\ out[4].body = plain(T_IMAGE_ERROR) /\ ~out[4].ok
    /\ out[5].body = plain(T_CALLBACK_ERROR) /\ out[5].ok
    /\ Cardinality(ApologiesDelivered) = 1

=============================================================================
